---------------------------- MODULE Spec2Model ----------------------------
(***************************************************************************)
(* A model of pokerok.py: one invocation of the command-line tool, from    *)
(* argument parsing to process exit, with the external commands it runs    *)
(* (hdiutil, spctl, codesign) and the file system it touches as the        *)
(* environment.  Python's None is the string "none".                       *)
(***************************************************************************)
EXTENDS Integers, Sequences, FiniteSets, TLC

VARIABLES
    cmd,        \* the subcommand of this invocation
    args,       \* the parsed arguments: device, mountpoint, dry_run
    pc,         \* the statement the invocation is at
    exc,        \* the exception propagating now (NoExc: none)
    raised,     \* what the last call of hdiutil_detach raised (NoExc: it returned)
    exitCode,   \* the process's exit status, -1 while it runs
    log,        \* the external commands issued and the temp-dir cleanup, in order
    out,        \* the lines printed on standard output
    attached,   \* whether the image this invocation attached is still attached
    tmp,        \* the mount directory: how it was made and whether it exists
    mp,         \* hdiutil_attach's first result, "none" until it returns
    dev,        \* hdiutil_attach's second result, "none" until it returns
    target,     \* the argument of hdiutil_detach
    app,        \* find_app_bundle's result
    vol,        \* the bundle on the image (NoBundle: the image has none)
    fs,         \* the destination: dest_dir and the entry dest_dir/<bundle name>
    fs0,        \* fs when the invocation started
    fsops,      \* the file-system calls copy_app made, in order
    ret,        \* copy_app's return value
    report      \* the plist of system entities `hdiutil attach` printed

vars == <<cmd, args, pc, exc, raised, exitCode, log, out, attached, tmp, mp, dev,
          target, app, vol, fs, fs0, fsops, ret, report>>

-----------------------------------------------------------------------------
(* Bounds *)

MaxEntities == 2
MaxRc == 2
MaxFiles == 2

-----------------------------------------------------------------------------
(* Exceptions and the outcomes of subprocess.run(cmd, check=True) *)

None == "none"

NoExc == [kind |-> "none", rc |-> 0]
CalledProcessError(rc) == [kind |-> "CalledProcessError", rc |-> rc]
RuntimeError == [kind |-> "RuntimeError", rc |-> 0]
OSError == [kind |-> "OSError", rc |-> 0]
SystemExit(code) == [kind |-> "SystemExit", rc |-> code]

RcOk == [kind |-> "ok", rc |-> 0]
RcExit(rc) == [kind |-> "exit", rc |-> rc]
RcNoExec == [kind |-> "oserror", rc |-> 0]

\* run: the command exits 0, exits non-zero (check=True raises
\* CalledProcessError), or cannot be started (OSError, as on a non-darwin host).
run == {RcOk, RcNoExec} \cup {RcExit(rc) : rc \in 1..MaxRc}

\* The exception run raises for an outcome that is not a zero exit.
runError(o) == IF o.kind = "exit" THEN CalledProcessError(o.rc) ELSE OSError

LogEntry(tool, force, tgt, res) ==
    [tool |-> tool, force |-> force, target |-> tgt, res |-> res]

-----------------------------------------------------------------------------
(* hdiutil_attach: the report and the selection of mount point and device *)

MountPoints == {"/Volumes/A", "/Volumes/B"}
DevEntries == {"/dev/disk4s1", "/dev/disk4s2"}
ContentHints == {"Apple_HFS", "Apple_APFS", ""}

\* ent.get('content-hint', '').startswith('Apple_HFS')
StartsWithAppleHFS(hint) == hint \in {"Apple_HFS", "Apple_HFSX"}

Entities == [mp : MountPoints \cup {None}, dev : DevEntries \cup {None},
             hint : ContentHints]

Reports == UNION {[1..n -> Entities] : n \in 0..MaxEntities}

\* The first loop: every entity with a mount-point overwrites mnt, every
\* entity with a dev-entry and an Apple_HFS hint overwrites device.
RECURSIVE attach_scan(_, _, _)
attach_scan(pl, i, acc) ==
    IF i > Len(pl) THEN acc
    ELSE LET ent == pl[i]
             mnt == IF ent.mp # None THEN ent.mp ELSE acc.mnt
             device == IF ent.dev # None /\ StartsWithAppleHFS(ent.hint)
                       THEN ent.dev ELSE acc.device
         IN  attach_scan(pl, i + 1, [mnt |-> mnt, device |-> device])

\* The fallback loops: the first entity with the key, None when there is none.
RECURSIVE first_mount_point(_, _)
first_mount_point(pl, i) ==
    IF i > Len(pl) THEN None
    ELSE IF pl[i].mp # None THEN pl[i].mp ELSE first_mount_point(pl, i + 1)

RECURSIVE first_dev_entry(_, _)
first_dev_entry(pl, i) ==
    IF i > Len(pl) THEN None
    ELSE IF pl[i].dev # None THEN pl[i].dev ELSE first_dev_entry(pl, i + 1)

\* What hdiutil_attach makes of a report: (mnt, device), or ok = FALSE where
\* it raises RuntimeError.
hdiutil_attach_select(pl) ==
    LET s == attach_scan(pl, 1, [mnt |-> None, device |-> None])
        mnt == IF s.mnt = None THEN first_mount_point(pl, 1) ELSE s.mnt
        device == IF s.device = None THEN first_dev_entry(pl, 1) ELSE s.device
    IN  [mnt |-> mnt, device |-> device, ok |-> (mnt # None /\ device # None)]

\* The report lists the device nodes the attach created: the image is
\* attached when it lists one.
ImageAttached(pl) == \E i \in DOMAIN pl : pl[i].dev # None

-----------------------------------------------------------------------------
(* copy_app: the destination file system *)

Names == 1..MaxFiles
Contents == {"c1", "c2"}

\* A directory tree: the files in it and the content of each.
Trees == UNION {[S -> Contents] : S \in SUBSET Names}

NoBundle == [kind |-> "none", tree |-> <<>>, link |-> ""]
NoEntry == [kind |-> "absent", tree |-> <<>>, link |-> ""]
FileEntry == [kind |-> "file", tree |-> <<>>, link |-> ""]
DirEntry(t) == [kind |-> "dir", tree |-> t, link |-> ""]
LinkEntry(to) == [kind |-> "symlink", tree |-> <<>>, link |-> to]

Bundles == {DirEntry(t) : t \in Trees}

\* The entry at dest_dir/<bundle name>: nothing, a file, a directory tree, or a
\* symbolic link to a directory, to a file, or to nothing.
DestEntries == {NoEntry, FileEntry} \cup {DirEntry(t) : t \in Trees}
               \cup {LinkEntry(to) : to \in {"dir", "file", "broken"}}

\* dest_dir is absent, a directory holding one of the entries, or a file.
FsStates == {[destdir |-> "absent", dest |-> NoEntry],
             [destdir |-> "file", dest |-> NoEntry]}
            \cup {[destdir |-> "dir", dest |-> e] : e \in DestEntries}

\* Path.exists and Path.is_dir follow symbolic links.
PathExists(e) == e.kind \in {"file", "dir"}
                 \/ (e.kind = "symlink" /\ e.link \in {"dir", "file"})
PathIsDir(e) == e.kind = "dir" \/ (e.kind = "symlink" /\ e.link = "dir")

DestPath == "dest_dir/bundle.app"

CopyResult(f, e, r, ops) == [fs |-> f, exc |-> e, ret |-> r, ops |-> ops]

\* shutil.copytree(app_src, dest, symlinks=True): dest must not exist, not
\* even as a dangling link; it becomes a copy of the source tree.
copytree(f, src, ops) ==
    IF f.dest.kind # "absent"
    THEN CopyResult(f, OSError, None, Append(ops, "copytree"))
    ELSE CopyResult([f EXCEPT !.dest = DirEntry(src.tree)], NoExc, DestPath,
                    Append(ops, "copytree"))

\* The removal of an existing dest: shutil.rmtree refuses a symbolic link,
\* unlink removes a file or a link.
remove_old(f, src, ops) ==
    IF PathIsDir(f.dest)
    THEN IF f.dest.kind = "symlink"
         THEN CopyResult(f, OSError, None, Append(ops, "rmtree"))
         ELSE copytree([f EXCEPT !.dest = NoEntry], src, Append(ops, "rmtree"))
    ELSE copytree([f EXCEPT !.dest = NoEntry], src, Append(ops, "unlink"))

\* A copy that lands on top of what is there (dirs_exist_ok) and removes nothing.
copy_app_merging(f0, src, dry_run) ==
    LET f == [f0 EXCEPT !.destdir = "dir"]
        old == IF f.dest.kind = "dir" THEN f.dest.tree ELSE <<>>
        merged == [n \in DOMAIN old \cup DOMAIN src.tree |->
                     IF n \in DOMAIN src.tree THEN src.tree[n] ELSE old[n]]
    IN  IF f0.destdir = "file" THEN CopyResult(f0, OSError, None, <<"mkdir">>)
        ELSE IF dry_run THEN CopyResult(f, NoExc, DestPath, <<"mkdir">>)
        ELSE CopyResult([f EXCEPT !.dest = DirEntry(merged)], NoExc, DestPath,
                        <<"mkdir", "copytree">>)

\* copy_app(app_src, dest_dir, dry_run): mkdir first, then the dry-run return,
\* then the removal of an existing dest, then the copy.
copy_app(f0, src, dry_run) ==
    IF f0.destdir = "file" THEN CopyResult(f0, OSError, None, <<"mkdir">>)
    ELSE LET f == [f0 EXCEPT !.destdir = "dir"]
         IN  IF dry_run THEN CopyResult(f, NoExc, DestPath, <<"mkdir">>)
             ELSE IF PathExists(f.dest) THEN remove_old(f, src, <<"mkdir">>)
             ELSE copytree(f, src, <<"mkdir">>)

\* find_app_bundle: the first *.app under the mount point, None without one.
find_app_bundle(v) == IF v.kind = "none" THEN None ELSE "bundle.app"


-----------------------------------------------------------------------------
(* The command line: build_parser and parse_args *)

Cmds == {"hash", "info", "mount", "list", "copy", "verify", "detach"}

Devices == {None, "", "/dev/disk4"}
Mountpoints == {None, "", "/tmp/mnt"}

NoArgs == [device |-> None, mountpoint |-> None, dry_run |-> FALSE]

\* The arguments each subparser accepts.
ArgsOf(c) ==
    CASE c = "mount" -> {[NoArgs EXCEPT !.mountpoint = m] : m \in Mountpoints}
      [] c = "copy" -> {[NoArgs EXCEPT !.dry_run = d] : d \in BOOLEAN}
      [] c = "detach" -> {[NoArgs EXCEPT !.device = d, !.mountpoint = m] :
                            d \in Devices, m \in Mountpoints}
      [] OTHER -> {NoArgs}

\* A parser whose group lets -dev and -m be given together.
parser_error_no_group(c, a) ==
    c = "detach" /\ a.device = None /\ a.mountpoint = None

\* add_mutually_exclusive_group(required=True): parse_args ends the process
\* with status 2 when both options or neither were given.
parser_error(c, a) ==
    c = "detach" /\ ((a.device # None /\ a.mountpoint # None)
                     \/ (a.device = None /\ a.mountpoint = None))

\* Python's truth value of an optional string argument.
Truthy(s) == s # None /\ s # ""

\* set_defaults(func=...): where args.func(args) starts.
func(c) ==
    CASE c = "hash" -> "cmd_hash"
      [] c = "info" -> "cmd_info"
      [] c = "mount" -> "cmd_mount"
      [] c = "detach" -> "cmd_detach"
      [] OTHER -> "with_enter"

\* Where hdiutil_attach's caller goes on when it returns.
after_attach(c) ==
    CASE c = "mount" -> "mount_print"
      [] c = "list" -> "list_top"
      [] c = "copy" -> "copy_find"
      [] OTHER -> "verify_find"

\* A caller that made its directory without a with block around the attach.
attach_failed_no_with(c) == "main_handler"

\* Where an exception of hdiutil_attach goes: cmd_mount has no with block.
attach_failed(c) == IF c = "mount" THEN "main_handler" ELSE "with_exit"

\* A body whose detach follows it instead of sitting in a finally clause.
body_exit_no_finally(e) == IF e = NoExc THEN "finally" ELSE "with_exit"

\* try: ... finally: hdiutil_detach(dev): where the body of list, copy and
\* verify leaves to, with exception e or with none.
body_exit(e) == "finally"

\* A detach that retries nothing.
detach_retries_never(o) == FALSE

\* hdiutil_detach's except clause: only CalledProcessError is caught and
\* followed by the forced detach.
detach_retries(o) == o.kind = "exit"

\* Where hdiutil_detach's caller goes on: cmd_detach prints when it returned,
\* the finally clause of the others ends and the with block is left.
after_detach(c, e) ==
    IF c = "detach" THEN (IF e = NoExc THEN "detach_print" ELSE "main_handler")
    ELSE "with_exit"

\* A check that lets the command's failure through.
check_result_uncaught(o) ==
    [exc |-> IF o.kind = "ok" THEN NoExc ELSE runError(o), ok |-> o.kind = "ok"]

\* spctl_assess and codesign_verify: a non-zero exit is caught and becomes
\* (False, message); a command that cannot be started still raises.
check_result(o) ==
    [exc |-> IF o.kind = "oserror" THEN OSError ELSE NoExc, ok |-> o.kind = "ok"]

\* A handler that ends every failure with status 1.
exit_status_always_one(e) == IF e.kind = "none" THEN 0 ELSE 1

\* main: the status the process ends with for the exception that reached it.
exit_status(e) ==
    CASE e.kind = "none" -> 0
      [] e.kind = "CalledProcessError" -> e.rc
      [] e.kind = "SystemExit" -> e.rc
      [] OTHER -> 1

NoTmp == [kind |-> "none", state |-> "none"]

\* The destinations and images the whole tool is run against.
CliTree(c) == [n \in Names |-> c]
CliVolumes == {NoBundle, DirEntry(CliTree("c2"))}
CliFsStates == {[destdir |-> "absent", dest |-> NoEntry],
                [destdir |-> "file", dest |-> NoEntry],
                [destdir |-> "dir", dest |-> NoEntry],
                [destdir |-> "dir", dest |-> FileEntry],
                [destdir |-> "dir", dest |-> DirEntry(CliTree("c1"))]}

-----------------------------------------------------------------------------
(* The invocation *)

Init ==
    /\ cmd \in Cmds
    /\ args \in ArgsOf(cmd)
    /\ pc = "parse_args"
    /\ exc = NoExc
    /\ raised = NoExc
    /\ exitCode = -1
    /\ log = <<>>
    /\ out = <<>>
    /\ attached = FALSE
    /\ tmp = NoTmp
    /\ mp = None
    /\ dev = None
    /\ target = None
    /\ app = None
    /\ vol \in IF cmd \in {"copy", "verify"} THEN CliVolumes ELSE {NoBundle}
    /\ fs \in IF cmd = "copy" THEN CliFsStates
              ELSE {[destdir |-> "absent", dest |-> NoEntry]}
    /\ fs0 = fs
    /\ fsops = <<>>
    /\ ret = None
    /\ report = <<>>

\* main: parser.parse_args(), outside the try block.
parse_args ==
    /\ pc = "parse_args"
    /\ IF parser_error(cmd, args)
       THEN exitCode' = 2 /\ pc' = "done"
       ELSE exitCode' = exitCode /\ pc' = func(cmd)
    /\ UNCHANGED <<cmd, args, exc, raised, log, out, attached, tmp, mp, dev,
                   target, app, vol, fs, fs0, fsops, ret, report>>

cmd_hash ==
    /\ pc = "cmd_hash"
    /\ \E readable \in BOOLEAN :
         IF readable THEN out' = Append(out, "SHA-256") /\ exc' = exc
         ELSE exc' = OSError /\ out' = out
    /\ pc' = "main_handler"
    /\ UNCHANGED <<cmd, args, raised, exitCode, log, attached, tmp, mp, dev,
                   target, app, vol, fs, fs0, fsops, ret, report>>

cmd_info ==
    /\ pc = "cmd_info"
    /\ \E o \in run :
         /\ log' = Append(log, LogEntry("imageinfo", FALSE, "dmg", o))
         /\ IF o.kind = "ok" THEN out' = Append(out, "Info") /\ exc' = exc
            ELSE exc' = runError(o) /\ out' = out
    /\ pc' = "main_handler"
    /\ UNCHANGED <<cmd, args, raised, exitCode, attached, tmp, mp, dev,
                   target, app, vol, fs, fs0, fsops, ret, report>>

\* cmd_mount up to the call of hdiutil_attach: the given mount point, or a
\* directory made by tempfile.mkdtemp.
cmd_mount ==
    /\ pc = "cmd_mount"
    /\ tmp' = IF Truthy(args.mountpoint) THEN [kind |-> "given", state |-> "none"]
              ELSE [kind |-> "mkdtemp", state |-> "exists"]
    /\ pc' = "hdiutil_attach"
    /\ UNCHANGED <<cmd, args, exc, raised, exitCode, log, out, attached, mp,
                   dev, target, app, vol, fs, fs0, fsops, ret, report>>

\* with tempfile.TemporaryDirectory(prefix='pokerok_mnt_') as tmp:
with_enter ==
    /\ pc = "with_enter"
    /\ tmp' = [kind |-> "TemporaryDirectory", state |-> "exists"]
    /\ pc' = "hdiutil_attach"
    /\ UNCHANGED <<cmd, args, exc, raised, exitCode, log, out, attached, mp,
                   dev, target, app, vol, fs, fs0, fsops, ret, report>>

\* hdiutil_attach(dmg, mnt): mkdir of the mount point, the attach command, and
\* the selection of mount point and device from its report.
hdiutil_attach ==
    /\ pc = "hdiutil_attach"
    /\ tmp' = [tmp EXCEPT !.state = "exists"]
    /\ \E o \in run :
         /\ log' = Append(log, LogEntry("attach", FALSE, "dmg", o))
         /\ IF o.kind = "ok"
            THEN \E pl \in Reports :
                   LET r == hdiutil_attach_select(pl)
                   IN  /\ attached' = ImageAttached(pl)
                       /\ IF r.ok
                          THEN /\ mp' = r.mnt
                               /\ dev' = r.device
                               /\ exc' = exc
                               /\ pc' = after_attach(cmd)
                          ELSE /\ exc' = RuntimeError
                               /\ pc' = attach_failed(cmd)
                               /\ UNCHANGED <<mp, dev>>
            ELSE /\ exc' = runError(o)
                 /\ pc' = attach_failed(cmd)
                 /\ UNCHANGED <<attached, mp, dev>>
    /\ UNCHANGED <<cmd, args, raised, exitCode, out, target, app, vol, fs, fs0,
                   fsops, ret, report>>

mount_print ==
    /\ pc = "mount_print"
    /\ out' = Append(out, "Mounted")
    /\ pc' = "main_handler"
    /\ UNCHANGED <<cmd, args, exc, raised, exitCode, log, attached, tmp, mp,
                   dev, target, app, vol, fs, fs0, fsops, ret, report>>

\* cmd_list's try body: list_top reads the mount point and may fail.
list_top ==
    /\ pc = "list_top"
    /\ \E readable \in BOOLEAN :
         IF readable
         THEN out' = Append(out, "Contents") /\ exc' = exc /\ pc' = body_exit(NoExc)
         ELSE exc' = OSError /\ out' = out /\ pc' = body_exit(OSError)
    /\ UNCHANGED <<cmd, args, raised, exitCode, log, attached, tmp, mp, dev,
                   target, app, vol, fs, fs0, fsops, ret, report>>

\* cmd_copy's try body up to copy_app: find_app_bundle and the RuntimeError.
copy_find ==
    /\ pc = "copy_find"
    /\ app' = find_app_bundle(vol)
    /\ IF app' = None
       THEN exc' = RuntimeError /\ pc' = body_exit(RuntimeError)
       ELSE exc' = exc /\ pc' = "copy_app"
    /\ UNCHANGED <<cmd, args, raised, exitCode, log, out, attached, tmp, mp,
                   dev, target, vol, fs, fs0, fsops, ret, report>>

\* cmd_copy's call of copy_app and the line it prints.
cmd_copy ==
    /\ pc = "copy_app"
    /\ LET r == copy_app(fs, vol, args.dry_run)
       IN  /\ fs' = r.fs
           /\ fsops' = r.ops
           /\ ret' = r.ret
           /\ IF r.exc = NoExc
              THEN out' = Append(out, "Done") /\ exc' = exc
              ELSE exc' = r.exc /\ out' = out
           /\ pc' = body_exit(r.exc)
    /\ UNCHANGED <<cmd, args, raised, exitCode, log, attached, tmp, mp, dev,
                   target, app, vol, fs0, report>>

verify_find ==
    /\ pc = "verify_find"
    /\ app' = find_app_bundle(vol)
    /\ IF app' = None
       THEN exc' = RuntimeError /\ out' = out /\ pc' = body_exit(RuntimeError)
       ELSE exc' = exc /\ out' = Append(out, "Checking") /\ pc' = "spctl_assess"
    /\ UNCHANGED <<cmd, args, raised, exitCode, log, attached, tmp, mp, dev,
                   target, vol, fs, fs0, fsops, ret, report>>

\* cmd_verify: spctl_assess(app) and the Gatekeeper line.
spctl_assess ==
    /\ pc = "spctl_assess"
    /\ \E o \in run :
         LET r == check_result(o)
         IN  /\ log' = Append(log, LogEntry("spctl", FALSE, app, o))
             /\ IF r.exc = NoExc
                THEN /\ out' = Append(out, IF r.ok THEN "Gatekeeper: OK"
                                           ELSE "Gatekeeper: FAIL")
                     /\ exc' = exc
                     /\ pc' = "codesign_verify"
                ELSE exc' = r.exc /\ out' = out /\ pc' = body_exit(r.exc)
    /\ UNCHANGED <<cmd, args, raised, exitCode, attached, tmp, mp, dev, target,
                   app, vol, fs, fs0, fsops, ret, report>>

\* cmd_verify: codesign_verify(app) and the codesign line.
codesign_verify ==
    /\ pc = "codesign_verify"
    /\ \E o \in run :
         LET r == check_result(o)
         IN  /\ log' = Append(log, LogEntry("codesign", FALSE, app, o))
             /\ IF r.exc = NoExc
                THEN /\ out' = Append(out, IF r.ok THEN "codesign: OK"
                                           ELSE "codesign: FAIL")
                     /\ exc' = exc
                ELSE exc' = r.exc /\ out' = out
             /\ pc' = body_exit(r.exc)
    /\ UNCHANGED <<cmd, args, raised, exitCode, attached, tmp, mp, dev, target,
                   app, vol, fs, fs0, fsops, ret, report>>

\* finally: hdiutil_detach(dev)
finally_detach ==
    /\ pc = "finally"
    /\ target' = dev
    /\ pc' = "detach_normal"
    /\ UNCHANGED <<cmd, args, exc, raised, exitCode, log, out, attached, tmp,
                   mp, dev, app, vol, fs, fs0, fsops, ret, report>>

\* cmd_detach up to the call of hdiutil_detach: the target, or sys.exit(2).
cmd_detach ==
    /\ pc = "cmd_detach"
    /\ IF Truthy(args.device)
       THEN target' = args.device /\ exc' = exc /\ pc' = "detach_normal"
       ELSE IF Truthy(args.mountpoint)
       THEN target' = args.mountpoint /\ exc' = exc /\ pc' = "detach_normal"
       ELSE target' = target /\ exc' = SystemExit(2) /\ pc' = "main_handler"
    /\ UNCHANGED <<cmd, args, raised, exitCode, log, out, attached, tmp, mp,
                   dev, app, vol, fs, fs0, fsops, ret, report>>

\* hdiutil_detach: run(['hdiutil', 'detach', target])
hdiutil_detach ==
    /\ pc = "detach_normal"
    /\ \E o \in run :
         /\ log' = Append(log, LogEntry("detach", FALSE, target, o))
         /\ IF o.kind = "ok"
            THEN /\ raised' = NoExc
                 /\ exc' = exc
                 /\ attached' = (attached /\ target # dev)
                 /\ pc' = after_detach(cmd, NoExc)
            ELSE IF detach_retries(o)
            THEN /\ pc' = "detach_force"
                 /\ UNCHANGED <<raised, exc, attached>>
            ELSE /\ raised' = runError(o)
                 /\ exc' = runError(o)
                 /\ attached' = attached
                 /\ pc' = after_detach(cmd, runError(o))
    /\ UNCHANGED <<cmd, args, exitCode, out, tmp, mp, dev, target, app, vol,
                   fs, fs0, fsops, ret, report>>

\* hdiutil_detach's except clause: run(['hdiutil', 'detach', '-force', target])
hdiutil_detach_force ==
    /\ pc = "detach_force"
    /\ \E o \in run :
         /\ log' = Append(log, LogEntry("detach", TRUE, target, o))
         /\ IF o.kind = "ok"
            THEN /\ raised' = NoExc
                 /\ exc' = exc
                 /\ attached' = (attached /\ target # dev)
                 /\ pc' = after_detach(cmd, NoExc)
            ELSE /\ raised' = runError(o)
                 /\ exc' = runError(o)
                 /\ attached' = attached
                 /\ pc' = after_detach(cmd, runError(o))
    /\ UNCHANGED <<cmd, args, exitCode, out, tmp, mp, dev, target, app, vol,
                   fs, fs0, fsops, ret, report>>

detach_print ==
    /\ pc = "detach_print"
    /\ out' = Append(out, "Detached")
    /\ pc' = "main_handler"
    /\ UNCHANGED <<cmd, args, exc, raised, exitCode, log, attached, tmp, mp,
                   dev, target, app, vol, fs, fs0, fsops, ret, report>>

\* The end of the with block: TemporaryDirectory.__exit__ removes the
\* directory; with the image still attached the removal may fail, and its
\* OSError replaces the exception in flight.
with_exit ==
    /\ pc = "with_exit"
    /\ \E removed \in (IF attached THEN BOOLEAN ELSE {TRUE}) :
         /\ log' = Append(log, LogEntry("cleanup", FALSE, "tmp",
                                        IF removed THEN RcOk ELSE RcNoExec))
         /\ IF removed
            THEN tmp' = [tmp EXCEPT !.state = "removed"] /\ exc' = exc
            ELSE tmp' = tmp /\ exc' = OSError
    /\ pc' = "main_handler"
    /\ UNCHANGED <<cmd, args, raised, exitCode, out, attached, mp, dev, target,
                   app, vol, fs, fs0, fsops, ret, report>>

\* main: the except clauses around args.func(args) and the normal return.
main_handler ==
    /\ pc = "main_handler"
    /\ exitCode' = exit_status(exc)
    /\ pc' = "done"
    /\ UNCHANGED <<cmd, args, exc, raised, log, out, attached, tmp, mp, dev,
                   target, app, vol, fs, fs0, fsops, ret, report>>

Next ==
    \/ parse_args
    \/ cmd_hash
    \/ cmd_info
    \/ cmd_mount
    \/ with_enter
    \/ hdiutil_attach
    \/ mount_print
    \/ list_top
    \/ copy_find
    \/ cmd_copy
    \/ verify_find
    \/ spctl_assess
    \/ codesign_verify
    \/ finally_detach
    \/ cmd_detach
    \/ hdiutil_detach
    \/ hdiutil_detach_force
    \/ detach_print
    \/ with_exit
    \/ main_handler

Spec == Init /\ [][Next]_vars

-----------------------------------------------------------------------------
(* hdiutil_attach's selection on every report *)

InitAttach ==
    /\ cmd = "mount"
    /\ args = NoArgs
    /\ pc = "call_select"
    /\ exc = NoExc
    /\ raised = NoExc
    /\ exitCode = -1
    /\ log = <<>>
    /\ out = <<>>
    /\ attached = FALSE
    /\ tmp = NoTmp
    /\ mp = None
    /\ dev = None
    /\ target = None
    /\ app = None
    /\ vol = NoBundle
    /\ fs = [destdir |-> "absent", dest |-> NoEntry]
    /\ fs0 = fs
    /\ fsops = <<>>
    /\ ret = None
    /\ report \in Reports

\* hdiutil_attach from plistlib.loads(res.stdout) on: return or raise.
attach_select_call ==
    /\ pc = "call_select"
    /\ LET r == hdiutil_attach_select(report)
       IN  IF r.ok THEN mp' = r.mnt /\ dev' = r.device /\ exc' = exc
           ELSE exc' = RuntimeError /\ UNCHANGED <<mp, dev>>
    /\ attached' = ImageAttached(report)
    /\ pc' = "returned"
    /\ UNCHANGED <<cmd, args, raised, exitCode, log, out, tmp, target, app,
                   vol, fs, fs0, fsops, ret, report>>

NextAttach == attach_select_call

SpecAttach == InitAttach /\ [][NextAttach]_vars

-----------------------------------------------------------------------------
(* copy_app on every destination *)

InitCopy ==
    /\ cmd = "copy"
    /\ args \in ArgsOf("copy")
    /\ pc = "call_copy_app"
    /\ exc = NoExc
    /\ raised = NoExc
    /\ exitCode = -1
    /\ log = <<>>
    /\ out = <<>>
    /\ attached = TRUE
    /\ tmp = [kind |-> "TemporaryDirectory", state |-> "exists"]
    /\ mp = "/Volumes/A"
    /\ dev = "/dev/disk4s1"
    /\ target = None
    /\ app = "bundle.app"
    /\ vol \in Bundles
    /\ fs \in FsStates
    /\ fs0 = fs
    /\ fsops = <<>>
    /\ ret = None
    /\ report = <<>>

\* copy_app(app, dest, dry_run=args.dry_run): return or raise.
copy_app_call ==
    /\ pc = "call_copy_app"
    /\ LET r == copy_app(fs, vol, args.dry_run)
       IN  fs' = r.fs /\ fsops' = r.ops /\ ret' = r.ret /\ exc' = r.exc
    /\ pc' = "returned"
    /\ UNCHANGED <<cmd, args, raised, exitCode, log, out, attached, tmp, mp,
                   dev, target, app, vol, fs0, report>>

NextCopy == copy_app_call

SpecCopy == InitCopy /\ [][NextCopy]_vars

-----------------------------------------------------------------------------
(* The claims *)

Mounting == {"list", "copy", "verify"}

IsDetach(e) == e.tool = "detach"
IsExternal(e) == e.tool # "cleanup"

\* The detach commands issued so far, and all external commands issued so far.
Detaches == SelectSeq(log, IsDetach)
Externals == SelectSeq(log, IsExternal)

\* Positions of the log holding a command of the tool.
At(tool) == {i \in DOMAIN log : log[i].tool = tool}

\* C1: in list, copy and verify, once hdiutil_attach has returned, a detach of
\* the device it returned has been issued, after the attach, by the time the
\* try statement is left: before any error reaches main's handler and before
\* the subcommand returns.
C1_DetachOnEveryExit ==
    (cmd \in Mounting /\ dev # None /\ pc \in {"with_exit", "main_handler", "done"})
    => \E i \in At("attach") : \E j \in At("detach") :
         /\ i < j
         /\ log[i].res.kind = "ok"
         /\ ~log[j].force
         /\ log[j].target = dev

\* A copy whose bundle was not found ends with the detach issued.
C1_Witness ==
    /\ pc = "done"
    /\ cmd = "copy"
    /\ dev # None
    /\ app = None
    /\ exc = RuntimeError
    /\ Len(Detaches) = 1

\* C2: when hdiutil_attach raises, no detach is issued and no image attached by
\* this invocation is still attached when the subcommand has terminated.
C2_FailedAttachLeavesNothing ==
    (pc = "done" /\ cmd \in Mounting \cup {"mount"} /\ At("attach") # {} /\ dev = None)
    => (Len(Detaches) = 0 /\ ~attached)

\* C3: hdiutil_detach issues a normal detach first; the forced detach follows
\* exactly when the normal one exited non-zero, on the same target; there are
\* never more than two; it returns when the last one issued succeeded, and a
\* failed forced detach is raised and ends the subcommand with its status.
C3_DetachProtocol ==
    LET d == Detaches
        n == Len(Detaches)
    IN  /\ n <= 2
        /\ (n >= 1 => ~d[1].force)
        /\ (n = 2 => d[1].res.kind = "exit" /\ d[2].force /\ d[2].target = d[1].target)
        /\ (n >= 1 /\ pc # "detach_force")
           => /\ (d[1].res.kind = "exit" => n = 2)
              /\ (d[n].res.kind = "ok" => raised = NoExc)
              /\ (n = 2 /\ d[2].res.kind = "exit")
                 => /\ raised = CalledProcessError(d[2].res.rc)
                    /\ pc \in {"with_exit", "main_handler", "done"}
                    /\ "Detached" \notin {out[i] : i \in DOMAIN out}
                    /\ (pc = "done" /\ exc.kind = "CalledProcessError")
                       => exitCode = d[2].res.rc

\* Both detaches failed, with different statuses, and the tool ended with the second.
C3_Witness ==
    /\ pc = "done"
    /\ cmd = "detach"
    /\ Len(Detaches) = 2
    /\ Detaches[1].res = RcExit(1)
    /\ Detaches[2].res = RcExit(2)
    /\ exitCode = 2

\* C4: an invocation ended by a command's non-zero exit ends with the status
\* of that command, the last one issued; one ended by any other error ends
\* with status 1.
C4_ExitCode ==
    pc = "done"
    => /\ exc.kind = "CalledProcessError"
          => /\ Len(Externals) > 0
             /\ Externals[Len(Externals)].res = RcExit(exitCode)
       /\ exc.kind \in {"RuntimeError", "OSError"} => exitCode = 1

\* No bundle was found and then both detaches failed: the status is the forced detach's.
C4_Witness ==
    /\ pc = "done"
    /\ cmd = "copy"
    /\ app = None
    /\ dev # None
    /\ Len(Detaches) = 2
    /\ Detaches[2].res = RcExit(2)
    /\ exitCode = 2

\* C5: in verify, once a bundle is found, a Gatekeeper check that exits (zero
\* or not) is followed by the signature check, each check that exits prints
\* its OK or FAIL line and raises nothing, and with both lines printed and the
\* detach succeeding the status is 0.
C5_VerifyRunsBothChecks ==
    (cmd = "verify" /\ app # None /\ pc \notin {"spctl_assess", "codesign_verify"})
    => LET s == At("spctl")
           c == At("codesign")
           exited(i) == log[i].res.kind # "oserror"
           word(i) == IF log[i].res.kind = "ok" THEN "OK" ELSE "FAIL"
       IN  /\ Cardinality(s) = 1
           /\ \A i \in s : exited(i) =>
                /\ Cardinality(c) = 1
                /\ Len(out) >= 2
                /\ out[2] = (IF word(i) = "OK" THEN "Gatekeeper: OK" ELSE "Gatekeeper: FAIL")
                /\ \A j \in c : exited(j) =>
                     /\ i < j
                     /\ Len(out) = 3
                     /\ out[3] = (IF word(j) = "OK" THEN "codesign: OK" ELSE "codesign: FAIL")
                     /\ (pc = "finally" => exc = NoExc)
                     /\ (pc = "done" /\ Detaches[Len(Detaches)].res.kind = "ok")
                        => exitCode = 0

\* Gatekeeper failed, the signature passed, and verify ended with status 0.
C5_Witness ==
    /\ pc = "done"
    /\ cmd = "verify"
    /\ out = <<"Checking", "Gatekeeper: FAIL", "codesign: OK">>
    /\ exitCode = 0

\* C6 as claimed: with both or neither of -dev and -m the status is 2 and no
\* detach is issued; with exactly one, hdiutil_detach gets exactly its value.
C6_ExactlyOneTarget ==
    (cmd = "detach" /\ pc = "done")
    => IF (args.device # None) # (args.mountpoint # None)
       THEN /\ Len(Detaches) >= 1
            /\ \A i \in At("detach") :
                 log[i].target = (IF args.device # None THEN args.device
                                  ELSE args.mountpoint)
       ELSE exitCode = 2 /\ Len(Detaches) = 0

\* C6 amended: with both or neither of -dev and -m, or with one whose value is
\* the empty string, the status is 2 and no detach is issued; with exactly one
\* and a non-empty value, hdiutil_detach gets exactly that value.
C6_ExactlyOneNonEmptyTarget ==
    (cmd = "detach" /\ pc = "done")
    => IF (args.device # None) # (args.mountpoint # None)
          /\ (IF args.device # None THEN args.device ELSE args.mountpoint) # ""
       THEN /\ Len(Detaches) >= 1
            /\ \A i \in At("detach") :
                 log[i].target = (IF args.device # None THEN args.device
                                  ELSE args.mountpoint)
       ELSE exitCode = 2 /\ Len(Detaches) = 0

\* detach -m /tmp/mnt detached /tmp/mnt.
C6_Witness ==
    /\ pc = "done"
    /\ cmd = "detach"
    /\ args.device = None
    /\ args.mountpoint = "/tmp/mnt"
    /\ Len(Detaches) = 1
    /\ Detaches[1].target = "/tmp/mnt"
    /\ exitCode = 0

\* C7: copy_app with dry_run leaves the destination as it was and returns
\* dest_dir/<bundle name>.
C7_DryRunTouchesNothing ==
    (pc = "returned" /\ args.dry_run)
    => /\ fs = fs0
       /\ exc = NoExc => ret = DestPath

\* C8: a copy_app without dry_run that returns, run against an existing
\* directory tree or file, leaves exactly the source bundle's tree at the
\* destination, and removed the old entry before it copied.
C8_ReplacesWholesale ==
    (pc = "returned" /\ ~args.dry_run /\ exc = NoExc
     /\ fs0.destdir = "dir" /\ fs0.dest.kind \in {"dir", "file"})
    => /\ fs.dest = DirEntry(vol.tree)
       /\ ret = DestPath
       /\ \E i \in DOMAIN fsops : \E j \in DOMAIN fsops :
            /\ i < j
            /\ fsops[i] = (IF fs0.dest.kind = "dir" THEN "rmtree" ELSE "unlink")
            /\ fsops[j] = "copytree"

\* The old tree held a file the bundle does not have, and it is gone.
C8_Witness ==
    /\ pc = "returned"
    /\ ~args.dry_run
    /\ exc = NoExc
    /\ fs0.dest.kind = "dir"
    /\ \E n \in DOMAIN fs0.dest.tree : n \notin DOMAIN vol.tree
    /\ fs.dest = DirEntry(vol.tree)

HasHFS(ent) == StartsWithAppleHFS(ent.hint)

\* C9: with an Apple_HFS entity that carries both keys in the report, mount
\* point and device are those of one such entity; with no Apple_HFS entity
\* they are the first mount point and the first device of the report; and the
\* attach raises exactly when one of the two is in no entity.
C9_SelectsTheVolumeEntry ==
    pc = "returned"
    => LET hfs == {i \in DOMAIN report : HasHFS(report[i])}
           full == {i \in hfs : report[i].mp # None /\ report[i].dev # None}
       IN  /\ full # {} => \E i \in full : mp = report[i].mp /\ dev = report[i].dev
           /\ (hfs = {} /\ exc = NoExc)
              => /\ mp = first_mount_point(report, 1)
                 /\ dev = first_dev_entry(report, 1)
           /\ (exc = RuntimeError)
              <=> (\A i \in DOMAIN report : report[i].mp = None)
                  \/ (\A i \in DOMAIN report : report[i].dev = None)

Ephemeral == {"TemporaryDirectory", "mkdtemp"}

\* C10 as claimed: every temporary mount directory an invocation made is
\* removed by the time it ends, and not before the detach was issued.
C10_TmpDirRemoved ==
    (pc = "done" /\ tmp.kind \in Ephemeral)
    => /\ tmp.state = "removed"
       /\ dev # None => \E i \in At("detach") : \E j \in At("cleanup") : i < j

\* C10 amended: the temporary directory of list, copy and verify has its
\* removal attempted once on every path, after the detach when the attach had
\* returned, and is removed whenever no image is left attached; the directory
\* cmd_mount made with mkdtemp is left in place.
C10_TmpDirScoped ==
    pc = "done"
    => /\ tmp.kind = "TemporaryDirectory"
          => /\ Cardinality(At("cleanup")) = 1
             /\ ~attached => tmp.state = "removed"
             /\ dev # None => \E i \in At("detach") : \E j \in At("cleanup") : i < j
       /\ tmp.kind = "mkdtemp" => tmp.state = "exists" /\ At("cleanup") = {}

\* The attach command itself failed in list, and the directory is gone.
C10_Witness ==
    /\ pc = "done"
    /\ cmd = "list"
    /\ exc.kind = "CalledProcessError"
    /\ dev = None
    /\ tmp = [kind |-> "TemporaryDirectory", state |-> "removed"]

=============================================================================
